---------------------------- MODULE Spec2Model ----------------------------
(***************************************************************************)
(* MyFileDiff: side-by-side comparison of two text files.                  *)
(*                                                                         *)
(* The module models src/MyFileDiff/MyFileDiff.py: the opcode computation  *)
(* both viewers delegate to difflib.SequenceMatcher(None, lines1, lines2), *)
(* the text-stream viewer FileDiffViewer, the interactive viewer           *)
(* FileDiffGUI and the entry point main.                                   *)
(*                                                                         *)
(* Indices into line sequences are the 0-based indices of the Python code; *)
(* element i of a Python list s is s[i+1] here.                            *)
(***************************************************************************)
EXTENDS Integers, Sequences, FiniteSets, TLC

(***************************************************************************)
(* Bounds of the model.                                                    *)
(***************************************************************************)
\* longest line sequence (file) considered
MaxLen == 3
\* longest file considered when the whole program is run
MainMaxLen == 1
\* most command-line arguments after the program name
MaxArgs == 3
\* presses of the "Compare Files" button followed in one session
MaxCompares == 2
\* changes other programs make to the compared files during one session
MaxChanges == 1
\* longest line handed to truncate_line
MaxLineLen == 5
\* largest width handed to truncate_line
MaxWidth == 5

\* Python's None where a string is expected, where a line is expected (no
\* line read from a file is empty) and where an exit code is expected
None == "None"
NoLine == <<>>
NoValue == -1
\* mark of a display_diff that ended with an exception
Raised == -2

(***************************************************************************)
(* Lines.  A line is the sequence of its characters, as readlines()        *)
(* returns it: the terminator is part of the line, and only the last line  *)
(* of a file can lack it.                                                  *)
(***************************************************************************)
LineA == <<"a", "\n">>
LineB == <<"b", "\n">>
LineNoEol == <<"a">>
Lines == {LineA, LineB, LineNoEol}

SeqsUpTo(S, n) == UNION {[1..k -> S] : k \in 0..n}

\* every list of lines get_diff_opcodes can be handed
LineSeqs == SeqsUpTo(Lines, MaxLen)

(***************************************************************************)
(* difflib.SequenceMatcher(None, a, b): no junk predicate; the autojunk    *)
(* heuristic only applies to sequences of 200 and more elements, which are *)
(* beyond MaxLen, so b2j[x] is the ascending list of all j with b[j] = x.  *)
(***************************************************************************)

\* j2len[j] after row i of find_longest_match: the length of the run of
\* matching pairs that ends at (i, j) and stays inside [alo..] x [blo..]
RECURSIVE j2len(_, _, _, _, _, _)
j2len(a, b, alo, blo, i, j) ==
    IF a[i + 1] # b[j + 1]
    THEN 0
    ELSE 1 + (IF i > alo /\ j > blo THEN j2len(a, b, alo, blo, i - 1, j - 1) ELSE 0)

\* the inner loop "for j in b2j.get(a[i])": ascending j in [blo, bhi),
\* the best triple replaced only by a strictly longer run
RECURSIVE ScanRow(_, _, _, _, _, _, _, _)
ScanRow(a, b, alo, blo, bhi, i, j, best) ==
    IF j >= bhi
    THEN best
    ELSE LET k == j2len(a, b, alo, blo, i, j)
             nbest == IF a[i + 1] = b[j + 1] /\ k > best[3]
                      THEN <<i - k + 1, j - k + 1, k>>
                      ELSE best
         IN ScanRow(a, b, alo, blo, bhi, i, j + 1, nbest)

\* the outer loop "for i in range(alo, ahi)"
RECURSIVE ScanRows(_, _, _, _, _, _, _, _)
ScanRows(a, b, alo, ahi, blo, bhi, i, best) ==
    IF i >= ahi
    THEN best
    ELSE ScanRows(a, b, alo, ahi, blo, bhi, i + 1,
                  ScanRow(a, b, alo, blo, bhi, i, blo, best))

\* first extension loop: grow the block to the left while elements agree
RECURSIVE ExtendBack(_, _, _, _, _)
ExtendBack(a, b, alo, blo, best) ==
    IF best[1] > alo /\ best[2] > blo /\ a[best[1]] = b[best[2]]
    THEN ExtendBack(a, b, alo, blo, <<best[1] - 1, best[2] - 1, best[3] + 1>>)
    ELSE best

\* second extension loop: grow the block to the right while elements agree
RECURSIVE ExtendFwd(_, _, _, _, _)
ExtendFwd(a, b, ahi, bhi, best) ==
    IF best[1] + best[3] < ahi /\ best[2] + best[3] < bhi
       /\ a[best[1] + best[3] + 1] = b[best[2] + best[3] + 1]
    THEN ExtendFwd(a, b, ahi, bhi, <<best[1], best[2], best[3] + 1>>)
    ELSE best

\* SequenceMatcher.find_longest_match(alo, ahi, blo, bhi) -> <<i, j, k>>
find_longest_match(a, b, alo, ahi, blo, bhi) ==
    ExtendFwd(a, b, ahi, bhi,
        ExtendBack(a, b, alo, blo,
            ScanRows(a, b, alo, ahi, blo, bhi, alo, <<alo, blo, 0>>)))

\* the work-list loop of get_matching_blocks: queue.pop() takes the last
\* entry; the part left of the match is pushed before the part right of it
RECURSIVE ProcessQueue(_, _, _, _)
ProcessQueue(a, b, queue, blocks) ==
    IF queue = <<>>
    THEN blocks
    ELSE LET q == queue[Len(queue)]
             rest == SubSeq(queue, 1, Len(queue) - 1)
             alo == q[1]
             ahi == q[2]
             blo == q[3]
             bhi == q[4]
             x == find_longest_match(a, b, alo, ahi, blo, bhi)
             i == x[1]
             j == x[2]
             k == x[3]
             q1 == IF alo < i /\ blo < j
                   THEN Append(rest, <<alo, i, blo, j>>)
                   ELSE rest
             q2 == IF i + k < ahi /\ j + k < bhi
                   THEN Append(q1, <<i + k, ahi, j + k, bhi>>)
                   ELSE q1
         IN IF k = 0
            THEN ProcessQueue(a, b, rest, blocks)
            ELSE ProcessQueue(a, b, q2, Append(blocks, x))

\* tuple order of Python on (i, j, k) triples
TripleLess(x, y) ==
    \/ x[1] < y[1]
    \/ x[1] = y[1] /\ x[2] < y[2]
    \/ x[1] = y[1] /\ x[2] = y[2] /\ x[3] < y[3]

RECURSIVE InsertSorted(_, _)
InsertSorted(x, s) ==
    IF s = <<>> THEN <<x>>
    ELSE IF TripleLess(x, Head(s)) THEN <<x>> \o s
    ELSE <<Head(s)>> \o InsertSorted(x, Tail(s))

\* matching_blocks.sort()
RECURSIVE SortBlocks(_)
SortBlocks(s) ==
    IF s = <<>> THEN <<>> ELSE InsertSorted(Head(s), SortBlocks(Tail(s)))

\* the loop collapsing adjacent equal blocks; cur is (i1, j1, k1)
RECURSIVE Collapse(_, _, _)
Collapse(blocks, cur, non_adjacent) ==
    IF blocks = <<>>
    THEN IF cur[3] # 0 THEN Append(non_adjacent, cur) ELSE non_adjacent
    ELSE LET nxt == Head(blocks)
         IN IF cur[1] + cur[3] = nxt[1] /\ cur[2] + cur[3] = nxt[2]
            THEN Collapse(Tail(blocks), <<cur[1], cur[2], cur[3] + nxt[3]>>, non_adjacent)
            ELSE Collapse(Tail(blocks), nxt,
                          IF cur[3] # 0 THEN Append(non_adjacent, cur) ELSE non_adjacent)

\* get_matching_blocks with the closing sentinel block forgotten
get_matching_blocks_NoSentinel(a, b) ==
    Collapse(SortBlocks(ProcessQueue(a, b, <<<<0, Len(a), 0, Len(b)>>>>, <<>>)),
             <<0, 0, 0>>, <<>>)

\* SequenceMatcher.get_matching_blocks(): sorted, collapsed, closed by the
\* sentinel block (len(a), len(b), 0)
get_matching_blocks(a, b) ==
    Append(Collapse(SortBlocks(ProcessQueue(a, b, <<<<0, Len(a), 0, Len(b)>>>>, <<>>)),
                    <<0, 0, 0>>, <<>>),
           <<Len(a), Len(b), 0>>)

\* an opcode (tag, i1, i2, j1, j2)
Opcode(tag, i1, i2, j1, j2) == [tag |-> tag, i1 |-> i1, i2 |-> i2, j1 |-> j1, j2 |-> j2]

\* GapTag with the tests for 'delete' and 'insert' exchanged
GapTag_Swapped(i, ai, j, bj) ==
    IF i < ai /\ j < bj THEN "replace"
    ELSE IF j < bj THEN "delete"
    ELSE IF i < ai THEN "insert"
    ELSE ""

\* GapTag with 'or' for 'and' in the test for 'replace'
GapTag_Or(i, ai, j, bj) ==
    IF i < ai \/ j < bj THEN "replace"
    ELSE IF i < ai THEN "delete"
    ELSE IF j < bj THEN "insert"
    ELSE ""

\* the tag get_opcodes gives the gap between (i, j) and the block at (ai, bj)
GapTag(i, ai, j, bj) ==
    IF i < ai /\ j < bj THEN "replace"
    ELSE IF i < ai THEN "delete"
    ELSE IF j < bj THEN "insert"
    ELSE ""

\* the loop of get_opcodes with the test "if size:" forgotten, so that the
\* sentinel block yields an empty 'equal' opcode
RECURSIVE OpcodesFrom_EmptyEqual(_, _, _, _)
OpcodesFrom_EmptyEqual(blocks, i, j, answer) ==
    IF blocks = <<>>
    THEN answer
    ELSE LET ai == Head(blocks)[1]
             bj == Head(blocks)[2]
             size == Head(blocks)[3]
             tag == GapTag(i, ai, j, bj)
             a1 == IF tag # "" THEN Append(answer, Opcode(tag, i, ai, j, bj)) ELSE answer
         IN OpcodesFrom_EmptyEqual(Tail(blocks), ai + size, bj + size,
                                   Append(a1, Opcode("equal", ai, ai + size, bj, bj + size)))

\* the loop of get_opcodes over the matching blocks
RECURSIVE OpcodesFrom(_, _, _, _)
OpcodesFrom(blocks, i, j, answer) ==
    IF blocks = <<>>
    THEN answer
    ELSE LET ai == Head(blocks)[1]
             bj == Head(blocks)[2]
             size == Head(blocks)[3]
             tag == GapTag(i, ai, j, bj)
             a1 == IF tag # "" THEN Append(answer, Opcode(tag, i, ai, j, bj)) ELSE answer
             a2 == IF size # 0
                   THEN Append(a1, Opcode("equal", ai, ai + size, bj, bj + size))
                   ELSE a1
         IN OpcodesFrom(Tail(blocks), ai + size, bj + size, a2)

\* SequenceMatcher.get_opcodes()
get_opcodes(a, b) == OpcodesFrom(get_matching_blocks(a, b), 0, 0, <<>>)

\* FileDiffViewer.get_diff_opcodes / FileDiffGUI.get_diff_opcodes
get_diff_opcodes(l1, l2) == get_opcodes(l1, l2)

(***************************************************************************)
(* The file system, as the viewers see it through open() and readlines().  *)
(***************************************************************************)
Paths == {"p1", "p2"}

\* what a file can hold: every line but the last ends with its terminator
FileLines(n) ==
    {s \in SeqsUpTo(Lines, n) : \A k \in 1..(Len(s) - 1) : s[k][Len(s[k])] = "\n"}

\* "ok": opens and decodes; "missing": no such file; "undecodable": bytes
\* that are not UTF-8; "unreadable": exists but open() fails (a directory,
\* no read permission)
FileStates(n) ==
    {[kind |-> "ok", lines |-> s] : s \in FileLines(n)}
    \cup {[kind |-> k, lines |-> <<>>] : k \in {"missing", "undecodable", "unreadable"}}

\* read_file: the lines, or the exception open()/readlines() ends with.
\* FileNotFoundError and UnicodeDecodeError are re-raised as themselves;
\* any other OSError passes through the two except clauses untouched.
read_file(fsys, file_path) ==
    LET f == fsys[file_path]
    IN CASE f.kind = "ok" -> [exc |-> None, lines |-> f.lines]
         [] f.kind = "missing" -> [exc |-> "FileNotFoundError", lines |-> <<>>]
         [] f.kind = "undecodable" -> [exc |-> "UnicodeDecodeError", lines |-> <<>>]
         [] OTHER -> [exc |-> "OSError", lines |-> <<>>]

\* the exceptions display_diff catches around the two reads
CaughtByDisplayDiff == {"FileNotFoundError", "UnicodeDecodeError"}

(***************************************************************************)
(* FileDiffViewer: the text-stream renderer.                               *)
(***************************************************************************)
Min(x, y) == IF x < y THEN x ELSE y
Max(x, y) == IF x > y THEN x ELSE y

\* str.rstrip('\n\r')
RECURSIVE rstrip(_)
rstrip(line) ==
    IF line # <<>> /\ line[Len(line)] \in {"\n", "\r"}
    THEN rstrip(SubSeq(line, 1, Len(line) - 1))
    ELSE line

\* the slice s[:n] of Python: a negative n counts from the end
SliceTo(s, n) ==
    IF n >= 0 THEN SubSeq(s, 1, Min(n, Len(s))) ELSE SubSeq(s, 1, Max(0, Len(s) + n))

\* str.ljust(width): spaces appended up to width, nothing cut
ljust(s, width) == s \o [k \in 1..(width - Len(s)) |-> " "]

Ellipsis == <<".", ".", ".">>

\* FileDiffViewer.truncate_line
truncate_line(line, width) ==
    LET stripped == rstrip(line)
    IN IF Len(stripped) > width
       THEN SliceTo(stripped, width - 3) \o Ellipsis
       ELSE ljust(stripped, width)

\* one call print_side_by_side(left, right, status)
print_side_by_side(left, right, status) ==
    [type |-> "row", left |-> left, right |-> right, status |-> status]

\* print_header: banner, the two paths, banner
print_header(p1, p2) ==
    << [type |-> "banner"], [type |-> "header", left |-> p1, right |-> p2], [type |-> "banner"] >>

\* ViewerRows indexing the lines of a 'delete' or 'insert' run from the
\* start of the file instead of the start of the run
ViewerRows_NoOffset(op, l1, l2) ==
    CASE op.tag = "equal" ->
           [k \in 1..Min(op.i2 - op.i1, op.j2 - op.j1) |->
               print_side_by_side(l1[op.i1 + k], l2[op.j1 + k], " ")]
      [] op.tag = "replace" ->
           [k \in 1..Max(op.i2 - op.i1, op.j2 - op.j1) |->
               print_side_by_side(
                   IF op.i1 + (k - 1) < op.i2 THEN l1[op.i1 + k] ELSE NoLine,
                   IF op.j1 + (k - 1) < op.j2 THEN l2[op.j1 + k] ELSE NoLine,
                   "|")]
      [] op.tag = "delete" ->
           [k \in 1..(op.i2 - op.i1) |-> print_side_by_side(l1[k], NoLine, "-")]
      [] op.tag = "insert" ->
           [k \in 1..(op.j2 - op.j1) |-> print_side_by_side(NoLine, l2[k], "+")]
      [] OTHER -> <<>>

\* the rows FileDiffViewer.display_diff prints for one opcode
ViewerRows(op, l1, l2) ==
    CASE op.tag = "equal" ->
           [k \in 1..Min(op.i2 - op.i1, op.j2 - op.j1) |->
               print_side_by_side(l1[op.i1 + k], l2[op.j1 + k], " ")]
      [] op.tag = "replace" ->
           [k \in 1..Max(op.i2 - op.i1, op.j2 - op.j1) |->
               print_side_by_side(
                   IF op.i1 + (k - 1) < op.i2 THEN l1[op.i1 + k] ELSE NoLine,
                   IF op.j1 + (k - 1) < op.j2 THEN l2[op.j1 + k] ELSE NoLine,
                   "|")]
      [] op.tag = "delete" ->
           [k \in 1..(op.i2 - op.i1) |-> print_side_by_side(l1[op.i1 + k], NoLine, "-")]
      [] op.tag = "insert" ->
           [k \in 1..(op.j2 - op.j1) |-> print_side_by_side(NoLine, l2[op.j1 + k], "+")]
      [] OTHER -> <<>>

\* the loop "for tag, i1, i2, j1, j2 in opcodes" of FileDiffViewer.display_diff
RECURSIVE ViewerLoop(_, _, _)
ViewerLoop(ops, l1, l2) ==
    IF ops = <<>> THEN <<>>
    ELSE ViewerRows(Head(ops), l1, l2) \o ViewerLoop(Tail(ops), l1, l2)

\* has_differences at the end of the loop
HasDifferences(ops) ==
    \E n \in 1..Len(ops) : ops[n].tag \in {"replace", "delete", "insert"}

\* FileDiffViewer.display_diff as a whole: what it read, printed and returned
Viewer_display_diff(fsys, p1, p2) ==
    LET r1 == read_file(fsys, p1)
        r2 == read_file(fsys, p2)
        failed == IF r1.exc # None THEN r1.exc ELSE r2.exc
        failedPath == IF r1.exc # None THEN p1 ELSE p2
        opened == IF r1.exc # None THEN <<p1>> ELSE <<p1, p2>>
        ops == get_diff_opcodes(r1.lines, r2.lines)
        differ == HasDifferences(ops)
    IN IF failed # None
       THEN [ raised |-> failed \notin CaughtByDisplayDiff,
              ret |-> IF failed \in CaughtByDisplayDiff THEN 2 ELSE NoValue,
              lines1 |-> r1.lines,
              lines2 |-> <<>>,
              opcodes |-> <<>>,
              out |-> <<>>,
              err |-> IF failed \in CaughtByDisplayDiff
                      THEN << [kind |-> "Error", exc |-> failed, arg |-> failedPath] >>
                      ELSE <<>>,
              opened |-> opened ]
       ELSE [ raised |-> FALSE,
              ret |-> IF differ THEN 1 ELSE 0,
              lines1 |-> r1.lines,
              lines2 |-> r2.lines,
              opcodes |-> ops,
              out |-> print_header(p1, p2) \o ViewerLoop(ops, r1.lines, r2.lines)
                      \o << [type |-> "banner"] >>
                      \o << [type |-> IF differ THEN "legend" ELSE "identical"] >>,
              err |-> <<>>,
              opened |-> opened ]

(***************************************************************************)
(* FileDiffGUI: the interactive viewer.  A Text widget is the sequence of  *)
(* the (text, tag) pieces inserted into it, one line each.                 *)
(***************************************************************************)
TitleInitial == "MyFileDiff - File Comparison Tool"
TitleDifferent == "MyFileDiff - Files are DIFFERENT"
TitleIdentical == "MyFileDiff - Files are IDENTICAL"
NoFileSelected == "No file selected"

\* the arguments of one insert(tk.END, text, tag)
Piece(text, tag) == [text |-> text, tag |-> tag]
TextLine(line, tag) == Piece(rstrip(line) \o <<"\n">>, tag)
BlankLine == Piece(<<"\n">>, "bg_normal")

\* GuiLeftRows without the blank lines that pad the left pane: nothing is
\* inserted for an 'insert' run or for the missing left lines of a
\* 'replace' run
GuiLeftRows_NoPad(op, l1) ==
    CASE op.tag = "equal" ->
           [k \in 1..Min(op.i2 - op.i1, op.j2 - op.j1) |-> TextLine(l1[op.i1 + k], "equal")]
      [] op.tag = "replace" ->
           [k \in 1..(op.i2 - op.i1) |-> TextLine(l1[op.i1 + k], "replace")]
      [] op.tag = "delete" -> [k \in 1..(op.i2 - op.i1) |-> TextLine(l1[op.i1 + k], "delete")]
      [] OTHER -> <<>>

\* the pieces FileDiffGUI.display_diff inserts into the left pane for one opcode
GuiLeftRows(op, l1) ==
    CASE op.tag = "equal" ->
           [k \in 1..Min(op.i2 - op.i1, op.j2 - op.j1) |-> TextLine(l1[op.i1 + k], "equal")]
      [] op.tag = "replace" ->
           [k \in 1..Max(op.i2 - op.i1, op.j2 - op.j1) |->
               IF op.i1 + (k - 1) < op.i2 THEN TextLine(l1[op.i1 + k], "replace") ELSE BlankLine]
      [] op.tag = "delete" -> [k \in 1..(op.i2 - op.i1) |-> TextLine(l1[op.i1 + k], "delete")]
      [] op.tag = "insert" -> [k \in 1..(op.j2 - op.j1) |-> BlankLine]
      [] OTHER -> <<>>

\* the pieces it inserts into the right pane for one opcode
GuiRightRows(op, l2) ==
    CASE op.tag = "equal" ->
           [k \in 1..Min(op.i2 - op.i1, op.j2 - op.j1) |-> TextLine(l2[op.j1 + k], "equal")]
      [] op.tag = "replace" ->
           [k \in 1..Max(op.i2 - op.i1, op.j2 - op.j1) |->
               IF op.j1 + (k - 1) < op.j2 THEN TextLine(l2[op.j1 + k], "replace") ELSE BlankLine]
      [] op.tag = "delete" -> [k \in 1..(op.i2 - op.i1) |-> BlankLine]
      [] op.tag = "insert" -> [k \in 1..(op.j2 - op.j1) |-> TextLine(l2[op.j1 + k], "insert")]
      [] OTHER -> <<>>

\* the loop over the opcodes, one pane at a time
RECURSIVE GuiLeftLoop(_, _)
GuiLeftLoop(ops, l1) ==
    IF ops = <<>> THEN <<>> ELSE GuiLeftRows(Head(ops), l1) \o GuiLeftLoop(Tail(ops), l1)

RECURSIVE GuiRightLoop(_, _)
GuiRightLoop(ops, l2) ==
    IF ops = <<>> THEN <<>> ELSE GuiRightRows(Head(ops), l2) \o GuiRightLoop(Tail(ops), l2)

\* Text.insert: a widget in state DISABLED ignores insertions
InsertAll(widget, state, pieces) == IF state = "normal" THEN widget \o pieces ELSE widget

\* FileDiffGUI.display_diff as a whole, from the widgets as they are
GUI_display_diff(fsys, p1, p2, left, right, state, curTitle) ==
    LET r1 == read_file(fsys, p1)
        r2 == read_file(fsys, p2)
        failed == IF r1.exc # None THEN r1.exc ELSE r2.exc
        failedPath == IF r1.exc # None THEN p1 ELSE p2
        wasOpened == IF r1.exc # None THEN <<p1>> ELSE <<p1, p2>>
        ops == get_diff_opcodes(r1.lines, r2.lines)
        differ == HasDifferences(ops)
    IN IF failed # None
       THEN [ raised |-> failed \notin CaughtByDisplayDiff,
              exc |-> failed,
              ret |-> IF failed \in CaughtByDisplayDiff THEN 2 ELSE NoValue,
              lines1 |-> r1.lines,
              lines2 |-> <<>>,
              opcodes |-> <<>>,
              left_text |-> left,
              right_text |-> right,
              text_state |-> state,
              title |-> curTitle,
              dialogs |-> IF failed \in CaughtByDisplayDiff
                          THEN << [kind |-> "showerror", exc |-> failed, arg |-> failedPath] >>
                          ELSE <<>>,
              opened |-> wasOpened ]
       ELSE [ raised |-> FALSE,
              exc |-> None,
              ret |-> IF differ THEN 1 ELSE 0,
              lines1 |-> r1.lines,
              lines2 |-> r2.lines,
              opcodes |-> ops,
              left_text |-> InsertAll(left, state, GuiLeftLoop(ops, r1.lines)),
              right_text |-> InsertAll(right, state, GuiRightLoop(ops, r2.lines)),
              text_state |-> "disabled",
              title |-> IF differ THEN TitleDifferent ELSE TitleIdentical,
              dialogs |-> <<>>,
              opened |-> wasOpened ]

(***************************************************************************)
(* State.                                                                  *)
(***************************************************************************)
VARIABLES
    pc,          \* position of the operation under way
    fs,          \* the file system: state of each path
    file1_path,  \* the viewer's first path
    file2_path,  \* the viewer's second path
    lines1,      \* lines of the first file, as read or handed in
    lines2,      \* lines of the second file
    opcodes,     \* the runs get_diff_opcodes returned
    stdout,      \* what was printed to standard output, in order
    stderr,      \* what was printed to standard error, in order
    opened,      \* the paths open() was called on, in order
    ret,         \* the value the operation returned
    file1_entry, \* text of the first path entry
    file2_entry, \* text of the second path entry
    left_header, \* label above the left pane
    right_header,\* label above the right pane
    left_text,   \* left pane
    right_text,  \* right pane
    text_state,  \* state of the two panes: "normal" or "disabled"
    title,       \* window title
    dialogs,     \* message boxes shown, in order
    result,      \* the local "result" of FileDiffGUI.run
    last,        \* outcome of the latest display_diff of the interactive viewer
    ncompare,    \* presses of the compare button so far
    nchanges,    \* file changes so far
    argv,        \* sys.argv of the process
    display,     \* whether Tk can open a display
    constructed, \* the viewers constructed, in order
    line,        \* the line handed to truncate_line
    width,       \* the width handed to truncate_line
    truncated    \* what truncate_line returned

viewVars == <<lines1, lines2, opcodes>>
ioVars == <<stdout, stderr, opened>>
pathVars == <<file1_path, file2_path>>
entryVars == <<file1_entry, file2_entry>>
headerVars == <<left_header, right_header>>
paneVars == <<left_text, right_text, text_state>>
guiVars == <<entryVars, headerVars, paneVars, title, dialogs, result, last, ncompare>>
progVars == <<argv, display, constructed>>
truncVars == <<line, width, truncated>>
vars == <<pc, fs, pathVars, viewVars, ioVars, ret, guiVars, nchanges, progVars, truncVars>>

\* truncate_line has not been called
NoTruncate ==
    /\ line = <<>>
    /\ width = 0
    /\ truncated = <<>>

\* no interactive viewer exists
NoGui ==
    /\ file1_entry = None
    /\ file2_entry = None
    /\ left_header = None
    /\ right_header = None
    /\ left_text = <<>>
    /\ right_text = <<>>
    /\ text_state = None
    /\ title = None
    /\ dialogs = <<>>
    /\ result = NoValue
    /\ last = NoValue
    /\ ncompare = 0

\* nothing read, printed or returned yet
Fresh ==
    /\ lines1 = <<>>
    /\ lines2 = <<>>
    /\ opcodes = <<>>
    /\ stdout = <<>>
    /\ stderr = <<>>
    /\ opened = <<>>
    /\ ret = NoValue
    /\ nchanges = 0
    /\ NoTruncate

(***************************************************************************)
(* The aligner applied to arbitrary pairs of line sequences.               *)
(***************************************************************************)
InitAlign ==
    /\ pc = "align"
    /\ lines1 \in LineSeqs
    /\ lines2 \in LineSeqs
    /\ opcodes = <<>>
    /\ fs = [p \in Paths |-> [kind |-> "missing", lines |-> <<>>]]
    /\ file1_path = None
    /\ file2_path = None
    /\ stdout = <<>>
    /\ stderr = <<>>
    /\ opened = <<>>
    /\ ret = NoValue
    /\ nchanges = 0
    /\ NoGui
    /\ argv = <<>>
    /\ display = TRUE
    /\ constructed = <<>>
    /\ NoTruncate

GetDiffOpcodes ==
    /\ pc = "align"
    /\ opcodes' = get_diff_opcodes(lines1, lines2)
    /\ pc' = "aligned"
    /\ UNCHANGED <<truncVars, progVars, fs, pathVars, lines1, lines2, ioVars, ret, guiVars, nchanges>>

NextAlign == GetDiffOpcodes

SpecAlign == InitAlign /\ [][NextAlign]_vars

(***************************************************************************)
(* The two presentation layers on any file system: either a               *)
(* FileDiffViewer(file1, file2) whose display_diff is called, or a         *)
(* FileDiffGUI on which run() is called and whose window is then used.     *)
(***************************************************************************)

\* FileDiffViewer.__init__
InitViewer ==
    /\ pc = "viewer"
    /\ file1_path \in Paths
    /\ file2_path \in Paths
    /\ NoGui

\* FileDiffGUI.__init__ and setup_ui, with both paths or with none
GuiConstructed(f1, f2) ==
    /\ file1_path = f1
    /\ file2_path = f2
    /\ file1_entry = (IF f1 # None THEN f1 ELSE "")
    /\ file2_entry = (IF f2 # None THEN f2 ELSE "")
    /\ left_header = (IF f1 # None THEN f1 ELSE NoFileSelected)
    /\ right_header = (IF f2 # None THEN f2 ELSE NoFileSelected)
    /\ left_text = <<>>
    /\ right_text = <<>>
    /\ text_state = "normal"
    /\ title = TitleInitial
    /\ dialogs = <<>>
    /\ result = NoValue
    /\ last = NoValue
    /\ ncompare = 0

InitGui ==
    /\ pc = "gui_run"
    /\ \/ GuiConstructed("p1", "p2")
       \/ GuiConstructed(None, None)

Init ==
    /\ fs \in [Paths -> FileStates(MaxLen)]
    /\ Fresh
    /\ argv = <<>>
    /\ display = TRUE
    /\ \/ InitViewer /\ constructed = <<"FileDiffViewer">>
       \/ InitGui /\ constructed = <<"FileDiffGUI">>

\* FileDiffViewer.display_diff()
ViewerDisplayDiff ==
    /\ pc = "viewer"
    /\ LET r == Viewer_display_diff(fs, file1_path, file2_path)
       IN /\ pc' = IF r.raised THEN "raised" ELSE "returned"
          /\ ret' = r.ret
          /\ lines1' = r.lines1
          /\ lines2' = r.lines2
          /\ opcodes' = r.opcodes
          /\ stdout' = stdout \o r.out
          /\ stderr' = stderr \o r.err
          /\ opened' = opened \o r.opened
    /\ UNCHANGED <<truncVars, progVars, fs, pathVars, guiVars, nchanges>>

\* the effect of one FileDiffGUI.display_diff() on the widgets
GuiApply(r) ==
    /\ lines1' = r.lines1
    /\ lines2' = r.lines2
    /\ opcodes' = r.opcodes
    /\ left_text' = r.left_text
    /\ right_text' = r.right_text
    /\ text_state' = r.text_state
    /\ title' = r.title
    /\ dialogs' = dialogs \o r.dialogs
    /\ opened' = opened \o r.opened
    /\ last' = IF r.raised THEN Raised ELSE r.ret

\* FileDiffGUI.run() up to the call of mainloop()
GuiRun ==
    /\ pc = "gui_run"
    /\ IF file1_path # None /\ file2_path # None
       THEN LET r == GUI_display_diff(fs, file1_path, file2_path,
                                      left_text, right_text, text_state, title)
            IN /\ GuiApply(r)
               /\ result' = r.ret
               /\ pc' = IF r.raised THEN "raised" ELSE "mainloop"
       ELSE /\ result' = 0
            /\ pc' = "mainloop"
            /\ UNCHANGED <<viewVars, paneVars, title, dialogs, opened, last>>
    /\ UNCHANGED <<truncVars, progVars, fs, pathVars, entryVars, headerVars, stdout, stderr, ret, ncompare, nchanges>>

\* FileDiffGUI.compare_files(), the command of the "Compare Files" button.
\* The entries hold "" or a path without surrounding blanks, which strip()
\* leaves as it is.
\* An exception leaving the callback is reported by Tk on stderr and the
\* event loop goes on.
CompareFiles ==
    /\ pc = "mainloop"
    /\ ncompare < MaxCompares
    /\ ncompare' = ncompare + 1
    /\ IF file1_entry = "" \/ file2_entry = ""
       THEN /\ dialogs' = Append(dialogs, [kind |-> "showwarning", exc |-> None, arg |-> None])
            /\ UNCHANGED <<pathVars, headerVars, viewVars, paneVars, title, opened, last, stderr>>
       ELSE LET r == GUI_display_diff(fs, file1_entry, file2_entry, <<>>, <<>>, "normal", title)
            IN /\ file1_path' = file1_entry
               /\ file2_path' = file2_entry
               /\ left_header' = file1_entry
               /\ right_header' = file2_entry
               /\ GuiApply(r)
               /\ stderr' = IF r.raised
                            THEN Append(stderr, [kind |-> "Traceback", exc |-> r.exc, arg |-> None])
                            ELSE stderr
    /\ UNCHANGED <<truncVars, progVars, pc, fs, entryVars, stdout, ret, result, nchanges>>

\* another program creates, rewrites, removes or locks one of the files
\* while the window is open
FileChanges(p, st) ==
    /\ pc = "mainloop"
    /\ nchanges < MaxChanges
    /\ fs[p] # st
    /\ fs' = [fs EXCEPT ![p] = st]
    /\ nchanges' = nchanges + 1
    /\ UNCHANGED <<truncVars, progVars, pc, pathVars, viewVars, ioVars, ret, guiVars>>

\* the window is closed: mainloop() returns and run() returns result
CloseWindow ==
    /\ pc = "mainloop"
    /\ pc' = "returned"
    /\ ret' = result
    /\ UNCHANGED <<truncVars, progVars, fs, pathVars, viewVars, ioVars, guiVars, nchanges>>

\* what a file can turn into while the window is open
ChangedStates ==
    {[kind |-> k, lines |-> <<>>] : k \in {"missing", "undecodable", "unreadable"}}
    \cup {[kind |-> "ok", lines |-> <<LineB>>]}

Next ==
    \/ ViewerDisplayDiff
    \/ GuiRun
    \/ CompareFiles
    \/ \E p \in Paths, st \in ChangedStates : FileChanges(p, st)
    \/ CloseWindow

Spec == Init /\ [][Next]_vars

(***************************************************************************)
(* The whole program: main() on any command line, with the interactive     *)
(* viewer used until its window is closed.                                 *)
(***************************************************************************)
ProgName == "MyFileDiff.py"
CliFlag == "--cli"

\* use_cli = '--cli' in sys.argv
use_cli(av) == \E k \in 1..Len(av) : av[k] = CliFlag

\* args = [arg for arg in sys.argv[1:] if arg != '--cli']
main_args(av) == SelectSeq(Tail(av), LAMBDA arg : arg # CliFlag)

\* main_branch with "== 2" written as ">= 2"
main_branch_AtLeastTwo(av) ==
    IF Len(main_args(av)) = 0
    THEN IF use_cli(av) THEN "usage_cli" ELSE "gui_blank"
    ELSE IF Len(main_args(av)) >= 2
    THEN IF use_cli(av) THEN "cli" ELSE "gui_files"
    ELSE "usage"

\* the branch of main's if / elif / else the command line selects
main_branch(av) ==
    IF Len(main_args(av)) = 0
    THEN IF use_cli(av) THEN "usage_cli" ELSE "gui_blank"
    ELSE IF Len(main_args(av)) = 2
    THEN IF use_cli(av) THEN "cli" ELSE "gui_files"
    ELSE "usage"

\* what main prints
UsageCli == [kind |-> "Usage", exc |-> None, arg |-> "<file1> <file2> [--cli]"]
UsageFull == [kind |-> "Usage", exc |-> None, arg |-> "[<file1> <file2>] [--cli]"]
GuiError == [kind |-> "GUI Error", exc |-> "TclError", arg |-> None]
TryCli == [kind |-> "Try --cli", exc |-> None, arg |-> None]
HelpText == [type |-> "help"]

InitMain ==
    /\ pc = "main"
    /\ argv \in {<<ProgName>> \o rest : rest \in SeqsUpTo(Paths \cup {CliFlag}, MaxArgs)}
    /\ display \in BOOLEAN
    /\ fs \in [Paths -> FileStates(MainMaxLen)]
    /\ Fresh
    /\ file1_path = None
    /\ file2_path = None
    /\ NoGui
    /\ constructed = <<>>

\* no file argument, --cli given: short usage message, return 2
MainUsageCli ==
    /\ pc = "main"
    /\ main_branch(argv) = "usage_cli"
    /\ stderr' = Append(stderr, UsageCli)
    /\ stdout' = Append(stdout, HelpText)
    /\ ret' = 2
    /\ pc' = "returned"
    /\ UNCHANGED <<fs, pathVars, viewVars, opened, guiVars, nchanges, progVars, truncVars>>

\* any other number of file arguments: usage message, return 2
MainUsage ==
    /\ pc = "main"
    /\ main_branch(argv) = "usage"
    /\ stderr' = Append(stderr, UsageFull)
    /\ stdout' = Append(stdout, HelpText)
    /\ ret' = 2
    /\ pc' = "returned"
    /\ UNCHANGED <<fs, pathVars, viewVars, opened, guiVars, nchanges, progVars, truncVars>>

\* two file arguments, --cli given: viewer = FileDiffViewer(file1, file2);
\* its display_diff is the next step
MainCli ==
    /\ pc = "main"
    /\ main_branch(argv) = "cli"
    /\ file1_path' = main_args(argv)[1]
    /\ file2_path' = main_args(argv)[2]
    /\ constructed' = Append(constructed, "FileDiffViewer")
    /\ pc' = "viewer"
    /\ UNCHANGED <<fs, viewVars, ioVars, ret, guiVars, nchanges, argv, display, truncVars>>

\* no --cli: gui = FileDiffGUI(...) with no path or with the two paths.
\* tk.Tk() raises TclError when no display can be opened; main reports it
\* and returns 2.  Otherwise gui.run() is the next step.
MainGui ==
    /\ pc = "main"
    /\ main_branch(argv) \in {"gui_blank", "gui_files"}
    /\ LET f1 == IF main_branch(argv) = "gui_files" THEN main_args(argv)[1] ELSE None
           f2 == IF main_branch(argv) = "gui_files" THEN main_args(argv)[2] ELSE None
       IN IF display
          THEN /\ file1_path' = f1
               /\ file2_path' = f2
               /\ file1_entry' = (IF f1 # None THEN f1 ELSE "")
               /\ file2_entry' = (IF f2 # None THEN f2 ELSE "")
               /\ left_header' = (IF f1 # None THEN f1 ELSE NoFileSelected)
               /\ right_header' = (IF f2 # None THEN f2 ELSE NoFileSelected)
               /\ text_state' = "normal"
               /\ title' = TitleInitial
               /\ constructed' = Append(constructed, "FileDiffGUI")
               /\ pc' = "gui_run"
               /\ UNCHANGED <<stderr, ret>>
          ELSE /\ file1_path' = f1
               /\ file2_path' = f2
               /\ stderr' = IF main_branch(argv) = "gui_files"
                            THEN stderr \o <<GuiError, TryCli>>
                            ELSE Append(stderr, GuiError)
               /\ ret' = 2
               /\ pc' = "returned"
               /\ UNCHANGED <<entryVars, headerVars, text_state, title, constructed>>
    /\ UNCHANGED <<fs, viewVars, stdout, opened, left_text, right_text, dialogs,
                   result, last, ncompare, nchanges, argv, display, truncVars>>

\* browse_file1: the file dialog returns a name, or "" when cancelled
BrowseFile1(filename) ==
    /\ pc = "mainloop"
    /\ IF filename # ""
       THEN /\ file1_entry' = filename
            /\ file1_path' = filename
       ELSE UNCHANGED <<file1_entry, file1_path>>
    /\ UNCHANGED <<pc, fs, file2_path, file2_entry, viewVars, ioVars, ret, headerVars,
                   paneVars, title, dialogs, result, last, ncompare, nchanges, progVars, truncVars>>

\* browse_file2
BrowseFile2(filename) ==
    /\ pc = "mainloop"
    /\ IF filename # ""
       THEN /\ file2_entry' = filename
            /\ file2_path' = filename
       ELSE UNCHANGED <<file2_entry, file2_path>>
    /\ UNCHANGED <<pc, fs, file1_path, file1_entry, viewVars, ioVars, ret, headerVars,
                   paneVars, title, dialogs, result, last, ncompare, nchanges, progVars, truncVars>>

NextMain ==
    \/ MainUsageCli
    \/ MainUsage
    \/ MainCli
    \/ MainGui
    \/ ViewerDisplayDiff
    \/ GuiRun
    \/ CompareFiles
    \/ \E filename \in Paths \cup {""} : BrowseFile1(filename)
    \/ \E filename \in Paths \cup {""} : BrowseFile2(filename)
    \/ CloseWindow

SpecMain == InitMain /\ [][NextMain]_vars

(***************************************************************************)
(* truncate_line applied to arbitrary lines and widths.                    *)
(***************************************************************************)
Chars == {"a", "b", "\n", "\r"}

InitTruncate ==
    /\ pc = "truncate"
    /\ line \in SeqsUpTo(Chars, MaxLineLen)
    /\ width \in 0..MaxWidth
    /\ truncated = <<>>
    /\ fs = [p \in Paths |-> [kind |-> "missing", lines |-> <<>>]]
    /\ file1_path = None
    /\ file2_path = None
    /\ lines1 = <<>>
    /\ lines2 = <<>>
    /\ opcodes = <<>>
    /\ stdout = <<>>
    /\ stderr = <<>>
    /\ opened = <<>>
    /\ ret = NoValue
    /\ nchanges = 0
    /\ NoGui
    /\ argv = <<>>
    /\ display = TRUE
    /\ constructed = <<"FileDiffViewer">>

TruncateLine ==
    /\ pc = "truncate"
    /\ truncated' = truncate_line(line, width)
    /\ pc' = "truncated"
    /\ UNCHANGED <<line, width, fs, pathVars, viewVars, ioVars, ret, guiVars, nchanges, progVars>>

NextTruncate == TruncateLine

SpecTruncate == InitTruncate /\ [][NextTruncate]_vars

(***************************************************************************)
(* Properties of the aligner (checked under SpecAlign).                    *)
(***************************************************************************)
NonEqualTags == {"replace", "delete", "insert"}

\* the lines of s from index lo up to, not including, index hi
Slice(s, lo, hi) == SubSeq(s, lo + 1, hi)

RECURSIVE ConcatLeft(_, _)
ConcatLeft(ops, l1) ==
    IF ops = <<>> THEN <<>>
    ELSE Slice(l1, Head(ops).i1, Head(ops).i2) \o ConcatLeft(Tail(ops), l1)

RECURSIVE ConcatRight(_, _)
ConcatRight(ops, l2) ==
    IF ops = <<>> THEN <<>>
    ELSE Slice(l2, Head(ops).j1, Head(ops).j2) \o ConcatRight(Tail(ops), l2)

\* C2: the runs returned by get_diff_opcodes partition both sequences: the
\* first run starts at 0 on both sides, each run starts where the previous
\* one ended, the last run ends at len(lines1) and len(lines2) (so no runs
\* means both sequences are empty), and the left ranges concatenated give
\* lines1, the right ranges lines2.
C2_Partition ==
    pc = "aligned" =>
        /\ opcodes = <<>> => (lines1 = <<>> /\ lines2 = <<>>)
        /\ opcodes # <<>> =>
              /\ opcodes[1].i1 = 0
              /\ opcodes[1].j1 = 0
              /\ opcodes[Len(opcodes)].i2 = Len(lines1)
              /\ opcodes[Len(opcodes)].j2 = Len(lines2)
        /\ \A n \in 2..Len(opcodes) :
              /\ opcodes[n].i1 = opcodes[n - 1].i2
              /\ opcodes[n].j1 = opcodes[n - 1].j2
        /\ \A n \in 1..Len(opcodes) :
              /\ opcodes[n].i1 <= opcodes[n].i2
              /\ opcodes[n].j1 <= opcodes[n].j2
        /\ ConcatLeft(opcodes, lines1) = lines1
        /\ ConcatRight(opcodes, lines2) = lines2

\* C2 witness: an alignment of three runs, with a difference at the end of
\* both sequences
C2_Witness ==
    /\ pc = "aligned"
    /\ Len(opcodes) >= 3
    /\ opcodes[Len(opcodes)].tag = "replace"

\* a run is well-formed for its kind
WellFormedRun(op, l1, l2) ==
    /\ 0 <= op.i1 /\ op.i1 <= op.i2 /\ op.i2 <= Len(l1)
    /\ 0 <= op.j1 /\ op.j1 <= op.j2 /\ op.j2 <= Len(l2)
    /\ op.tag \in {"equal"} \cup NonEqualTags
    /\ op.tag = "equal" =>
          /\ op.i2 - op.i1 = op.j2 - op.j1
          /\ op.i2 - op.i1 > 0
          /\ \A k \in 0..(op.i2 - op.i1 - 1) : l1[op.i1 + k + 1] = l2[op.j1 + k + 1]
    /\ op.tag = "replace" => (op.i2 > op.i1 /\ op.j2 > op.j1)
    /\ op.tag = "delete" => (op.i2 > op.i1 /\ op.j2 = op.j1)
    /\ op.tag = "insert" => (op.i2 = op.i1 /\ op.j2 > op.j1)

\* C3: every run returned by get_diff_opcodes is well-formed for its kind
\* (non-negative ordered indices; Equal: same non-zero length and pairwise
\* equal lines; Replace: non-empty on both sides; Delete: non-empty left,
\* empty right; Insert: empty left, non-empty right), and no two
\* consecutive runs are both Equal.
C3_WellFormed ==
    pc = "aligned" =>
        /\ \A n \in 1..Len(opcodes) : WellFormedRun(opcodes[n], lines1, lines2)
        /\ \A n \in 2..Len(opcodes) :
              ~(opcodes[n - 1].tag = "equal" /\ opcodes[n].tag = "equal")

\* C3 witness: an alignment holding an Equal run, a Delete run and an
\* Insert run
C3_Witness ==
    /\ pc = "aligned"
    /\ \E n, m, q \in 1..Len(opcodes) :
          /\ opcodes[n].tag = "equal"
          /\ opcodes[m].tag = "delete"
          /\ opcodes[q].tag = "insert"

\* C4: for a non-empty sequence L, get_diff_opcodes(L, L) is exactly one
\* Equal run covering 0..len(L) on both sides.
C4_Identity ==
    (pc = "aligned" /\ lines1 = lines2 /\ lines1 # <<>>) =>
        opcodes = << Opcode("equal", 0, Len(lines1), 0, Len(lines1)) >>

\* C4 witness: a sequence with a repeated line aligned with itself
C4_Witness ==
    /\ pc = "aligned"
    /\ lines1 = lines2
    /\ Len(lines1) >= 3
    /\ lines1[1] = lines1[3]
    /\ lines1[1] # lines1[2]

\* the two sequences share no line
NoCommonLine(l1, l2) ==
    \A i \in 1..Len(l1) : \A j \in 1..Len(l2) : l1[i] # l2[j]

\* C5: two empty sequences give no run; empty left and non-empty right give
\* one Insert run over all of the right; non-empty left and empty right one
\* Delete run over all of the left; two non-empty sequences with no line in
\* common one Replace run over both.
C5_Degenerate ==
    pc = "aligned" =>
        /\ (lines1 = <<>> /\ lines2 = <<>>) => opcodes = <<>>
        /\ (lines1 = <<>> /\ lines2 # <<>>) =>
              opcodes = << Opcode("insert", 0, 0, 0, Len(lines2)) >>
        /\ (lines1 # <<>> /\ lines2 = <<>>) =>
              opcodes = << Opcode("delete", 0, Len(lines1), 0, 0) >>
        /\ (lines1 # <<>> /\ lines2 # <<>> /\ NoCommonLine(lines1, lines2)) =>
              opcodes = << Opcode("replace", 0, Len(lines1), 0, Len(lines2)) >>

\* C5 witness: two non-empty sequences of different lengths without a
\* common line, aligned
C5_Witness ==
    /\ pc = "aligned"
    /\ Len(lines1) >= 2
    /\ Len(lines2) = 1
    /\ NoCommonLine(lines1, lines2)

(***************************************************************************)
(* Properties of the two presentation layers (checked under Spec).         *)
(***************************************************************************)

\* the state belongs to a run of the text-stream viewer / of the
\* interactive viewer
ViewerMode == constructed = <<"FileDiffViewer">>
GuiMode == constructed = <<"FileDiffGUI">>

\* FileDiffViewer.display_diff has ended, by a return or by an exception
ViewerEnded == ViewerMode /\ pc \in {"returned", "raised"}

AllEqual(ops) == \A n \in 1..Len(ops) : ops[n].tag = "equal"

\* C1: FileDiffViewer.display_diff returns 0 exactly when both files were
\* read and every opcode is 'equal', which is exactly when the two line
\* sequences are equal; it returns 1 when both were read and the sequences
\* differ; it returns 2 when either path is missing.
C1_ExitCodes ==
    ViewerEnded =>
        LET f1 == fs[file1_path]
            f2 == fs[file2_path]
            bothRead == f1.kind = "ok" /\ f2.kind = "ok"
        IN /\ (pc = "returned" /\ ret = 0) <=> (bothRead /\ AllEqual(opcodes))
           /\ bothRead => (AllEqual(opcodes) <=> f1.lines = f2.lines)
           /\ (bothRead /\ f1.lines # f2.lines) => (pc = "returned" /\ ret = 1)
           /\ (f1.kind = "missing" \/ f2.kind = "missing") => (pc = "returned" /\ ret = 2)

\* the calls of print_side_by_side, in order
RowsOut == SelectSeq(stdout, LAMBDA e : e.type = "row")

\* the number of rows the claim gives a run
ExpectedRows(op) ==
    IF op.tag = "replace" THEN Max(op.i2 - op.i1, op.j2 - op.j1)
    ELSE IF op.tag = "insert" THEN op.j2 - op.j1
    ELSE op.i2 - op.i1

\* the rows expected for the runs before run n
RECURSIVE RowsBefore(_, _)
RowsBefore(ops, n) ==
    IF n <= 1 THEN 0 ELSE RowsBefore(ops, n - 1) + ExpectedRows(ops[n - 1])

StatusOf(tag) ==
    CASE tag = "equal" -> " "
      [] tag = "replace" -> "|"
      [] tag = "delete" -> "-"
      [] tag = "insert" -> "+"

\* C6: each run gets max(left length, right length) rows if it is a
\* Replace run and its range length otherwise.  In the text-stream viewer
\* the rows of run n are the next ExpectedRows calls of print_side_by_side,
\* all with the run's status; in the interactive viewer that many lines are
\* inserted into the left pane and as many into the right pane, so that the
\* panes always hold the same number of rows.
C6_RowCount ==
    /\ (ViewerMode /\ pc = "returned" /\ ret \in {0, 1}) =>
          /\ Len(RowsOut) = RowsBefore(opcodes, Len(opcodes) + 1)
          /\ \A n \in 1..Len(opcodes) : \A k \in 1..ExpectedRows(opcodes[n]) :
                RowsOut[RowsBefore(opcodes, n) + k].status = StatusOf(opcodes[n].tag)
    /\ GuiMode => Len(left_text) = Len(right_text)
    /\ (GuiMode /\ last \in {0, 1}) =>
          /\ Len(left_text) = RowsBefore(opcodes, Len(opcodes) + 1)
          /\ \A n \in 1..Len(opcodes) : \A k \in 1..ExpectedRows(opcodes[n]) :
                /\ (left_text[RowsBefore(opcodes, n) + k].tag = "equal")
                      <=> (opcodes[n].tag = "equal")
                /\ (right_text[RowsBefore(opcodes, n) + k].tag = "equal")
                      <=> (opcodes[n].tag = "equal")

\* C6 witness: the compare button has filled the panes for an alignment
\* with a Replace run whose sides differ in length, next to an Equal run
C6_Witness ==
    /\ GuiMode
    /\ ncompare >= 1
    /\ last = 1
    /\ Len(opcodes) >= 2
    /\ \E n \in 1..Len(opcodes) :
          /\ opcodes[n].tag = "replace"
          /\ opcodes[n].i2 - opcodes[n].i1 # opcodes[n].j2 - opcodes[n].j1

\* the values other than None in column c of the rows, in order
LeftValues(rows) ==
    LET sel == SelectSeq(rows, LAMBDA e : e.left # NoLine)
    IN [k \in 1..Len(sel) |-> sel[k].left]

RightValues(rows) ==
    LET sel == SelectSeq(rows, LAMBDA e : e.right # NoLine)
    IN [k \in 1..Len(sel) |-> sel[k].right]

\* C7: when both files are read, the left values other than None handed to
\* print_side_by_side are, in order, exactly lines1, and the right values
\* exactly lines2.
C7_DocumentOrder ==
    (ViewerEnded /\ fs[file1_path].kind = "ok" /\ fs[file2_path].kind = "ok") =>
        /\ pc = "returned"
        /\ LeftValues(RowsOut) = fs[file1_path].lines
        /\ RightValues(RowsOut) = fs[file2_path].lines

\* C7 witness: rows printed for two files whose alignment has a Delete run
\* after an Equal run
C7_Witness ==
    /\ ViewerMode
    /\ pc = "returned"
    /\ ret = 1
    /\ \E n \in 2..Len(opcodes) : opcodes[n].tag = "delete"

(***************************************************************************)
(* Properties of the entry point (checked under SpecMain).                 *)
(***************************************************************************)

\* the number of command-line arguments other than '--cli'
FileArgCount == Cardinality({k \in 2..Len(argv) : argv[k] # CliFlag})

\* main has ended, by a return or by an exception
MainEnded == pc \in {"returned", "raised"}

\* C8: main with exactly two file path arguments returns 0 when the files
\* are identical, 1 when they differ and 2 when a path does not exist, with
\* or without --cli and whether or not the interactive viewer can
\* initialize.
C8_TriState ==
    (MainEnded /\ FileArgCount = 2) =>
        LET f1 == fs[main_args(argv)[1]]
            f2 == fs[main_args(argv)[2]]
            bothRead == f1.kind = "ok" /\ f2.kind = "ok"
        IN /\ (bothRead /\ f1.lines = f2.lines) => (pc = "returned" /\ ret = 0)
           /\ (bothRead /\ f1.lines # f2.lines) => (pc = "returned" /\ ret = 1)
           /\ (f1.kind = "missing" \/ f2.kind = "missing") => (pc = "returned" /\ ret = 2)

\* C9: with a number of file arguments other than zero or two, main opens
\* no file and constructs no viewer, at any time; it can only return, and
\* it returns 2 having written exactly a usage message to stderr.
C9_UsageFirst ==
    (FileArgCount \notin {0, 2}) =>
        /\ opened = <<>>
        /\ constructed = <<>>
        /\ pc \in {"main", "returned"}
        /\ pc = "main" => (ret = NoValue /\ stderr = <<>>)
        /\ pc = "returned" =>
              /\ ret = 2
              /\ Len(stderr) = 1
              /\ stderr[1].kind = "Usage"

\* C9 witness: main has returned for a command line of one file argument
\* and the --cli switch
C9_Witness ==
    /\ pc = "returned"
    /\ FileArgCount = 1
    /\ use_cli(argv)
    /\ ret = 2

\* C10: main with no argument at all returns 2 and writes a message
\* containing 'Usage:' to stderr.
C10_NoArguments ==
    (MainEnded /\ Len(argv) = 1) =>
        /\ pc = "returned"
        /\ ret = 2
        /\ \E k \in 1..Len(stderr) : stderr[k].kind = "Usage"

(***************************************************************************)
(* Properties of the read-failure handling (checked under Spec).           *)
(***************************************************************************)

\* C11: whenever one of the two files cannot be read (missing, existing
\* but not openable for reading, or not valid UTF-8), FileDiffViewer's
\* display_diff lets no exception escape: it returns 2, has reported the
\* error exactly once and has printed no header and no row.
C11_ReadFailuresCaught ==
    (ViewerEnded /\ (fs[file1_path].kind # "ok" \/ fs[file2_path].kind # "ok")) =>
        /\ pc = "returned"
        /\ ret = 2
        /\ Len(stderr) = 1
        /\ stderr[1].kind = "Error"
        /\ stdout = <<>>

(***************************************************************************)
(* Properties of truncate_line (checked under SpecTruncate).               *)
(***************************************************************************)

\* s ends with the ellipsis marker
EndsWithEllipsis(s) ==
    Len(s) >= 3 /\ SubSeq(s, Len(s) - 2, Len(s)) = Ellipsis

\* the line without its trailing newline and carriage-return characters
Stripped(l) ==
    LET keep == {n \in 0..Len(l) : \A k \in (n + 1)..Len(l) : l[k] \in {"\n", "\r"}}
        n == CHOOSE m \in keep : \A q \in keep : m <= q
    IN SubSeq(l, 1, n)

\* C12: for every line and every width >= 0, truncate_line returns exactly
\* width characters; when the line without its trailing newline / carriage
\* return is longer than width the result ends with '...', otherwise it is
\* that text followed by spaces only.
C12_ExactWidth ==
    pc = "truncated" =>
        /\ Len(truncated) = width
        /\ Len(Stripped(line)) > width => EndsWithEllipsis(truncated)
        /\ Len(Stripped(line)) <= width =>
              /\ SubSeq(truncated, 1, Len(Stripped(line))) = Stripped(line)
              /\ \A k \in (Len(Stripped(line)) + 1)..Len(truncated) : truncated[k] = " "

(***************************************************************************)
(* Properties of the window title and of the rows of Replace runs          *)
(* (checked under Spec).                                                   *)
(***************************************************************************)

\* C13: in the interactive viewer the window title shows the outcome of the
\* most recent comparison: the IDENTICAL title after a comparison that
\* returned 0, the DIFFERENT title after one that returned 1, and neither of
\* the two after one that returned 2 (Error).
C13_TitleFollowsLast ==
    GuiMode =>
        /\ last = 0 => title = TitleIdentical
        /\ last = 1 => title = TitleDifferent
        /\ last = 2 => title \notin {TitleIdentical, TitleDifferent}

\* the positions of the runs with tag 'replace'
ReplaceRuns == {n \in 1..Len(opcodes) : opcodes[n].tag = "replace"}

\* C14: every row of a Replace run is marked Replace, blank padding
\* included.  Row k (counted from 0) has its left side populated iff
\* k < i2 - i1 and its right side populated iff k < j2 - j1; the text-stream
\* renderer gives the row the status '|', and the interactive viewer inserts
\* the row's line into each pane with the tag 'replace', on the populated
\* and on the blank side alike.
C14_ReplaceRows ==
    /\ (ViewerMode /\ pc = "returned" /\ ret \in {0, 1}) =>
          \A n \in ReplaceRuns : \A k \in 1..ExpectedRows(opcodes[n]) :
             LET row == RowsOut[RowsBefore(opcodes, n) + k]
             IN /\ row.status = "|"
                /\ (row.left # NoLine) <=> (k <= opcodes[n].i2 - opcodes[n].i1)
                /\ (row.right # NoLine) <=> (k <= opcodes[n].j2 - opcodes[n].j1)
    /\ (GuiMode /\ last \in {0, 1}) =>
          \A n \in ReplaceRuns : \A k \in 1..ExpectedRows(opcodes[n]) :
             LET l == left_text[RowsBefore(opcodes, n) + k]
                 r == right_text[RowsBefore(opcodes, n) + k]
             IN /\ (l.text # <<"\n">>) <=> (k <= opcodes[n].i2 - opcodes[n].i1)
                /\ (r.text # <<"\n">>) <=> (k <= opcodes[n].j2 - opcodes[n].j1)
                /\ l.tag = "replace"
                /\ r.tag = "replace"

=============================================================================
